---- MODULE Spec2Model ----
(***************************************************************************)
(* Model of krupicka_sem.py: extract_metadata, kelvin_to_celsius,          *)
(* plot_temperatures, save_to_excel and the __main__ pipeline.             *)
(*                                                                         *)
(* Python values are records [t, n, s, ts]: t is the Python type name, n   *)
(* a number in thousandths (Kelvin inputs), s a plain text, ts the lexed   *)
(* fields of a timestamp text.  Temperatures in Celsius are in hundredths. *)
(* Times are minutes counted from 2024-01-01 00:00.                        *)
(***************************************************************************)
EXTENDS Integers, Sequences, FiniteSets

VARIABLES entry, toolOnPath, folderState, folder, pc, photos, i, data, origin,
          outs, invocations, metadata, printed, chart, report, raised

\* entry        the function the run starts in: the script ("main") or a direct call
\* toolOnPath   shutil.which("exiftool") finds the tool
\* folderState  the folder path is missing, a file, or a directory
\* folder       the entries of the directory
\* pc           the control position
\* photos, i    the discovered files and the loop's position in them
\* data         the list extract_metadata builds
\* origin       for each record of data, the dict it was built from
\* outs         the standard outputs read so far, one per finished invocation
\* invocations  the files the tool was started for, in order
\* metadata     the list __main__ holds, or the argument of a direct call
\* printed      the messages written by print
\* chart        temperature_plot.jpg: written or not, and the plotted rows
\* report       the spreadsheet: written or not, and its rows
\* raised       the uncaught exception, if any
vars == <<entry, toolOnPath, folderState, folder, pc, photos, i, data, origin,
          outs, invocations, metadata, printed, chart, report, raised>>

\* Bounds of the model.
MaxFiles == 2
MaxRecords == 2

-----------------------------------------------------------------------------
\* Python values.

PyVal(t, n, s, ts) == [t |-> t, n |-> n, s |-> s, ts |-> ts]
Absent == PyVal("absent", 0, "", <<>>)
PyNone == PyVal("NoneType", 0, "", <<>>)
PyInt(n) == PyVal("int", n * 1000, "", <<>>)
PyFloat(milli) == PyVal("float", milli, "", <<>>)
PyBool(b) == PyVal("bool", IF b THEN 1000 ELSE 0, "", <<>>)
PyStr(s) == PyVal("str", 0, s, <<>>)
PyList == PyVal("list", 0, "", <<>>)
PyDict == PyVal("dict", 0, "", <<>>)

\* A timestamp text, lexed into the fields a strptime directive consumes.
Tok(d, v) == [d |-> d, v |-> v]
Stamp(day, hour, minute) ==
    <<Tok("Y", 2024), Tok("m", 1), Tok("d", day), Tok("H", hour), Tok("M", minute), Tok("S", 0)>>
PyStamp(ts) == PyVal("str", 0, "", ts)

\* Celsius results and capture times: None/NaN/NaT are the null value.
NoneVal == [null |-> TRUE, v |-> 0]
Some(v) == [null |-> FALSE, v |-> v]

-----------------------------------------------------------------------------
\* kelvin_to_celsius

\* isinstance(temp, (int, float)): bool is a subclass of int in Python.
IsIntOrFloat(temp) == temp.t \in {"int", "float", "bool"}

\* round(x, 2) of a value given in thousandths, result in hundredths.
\* The inputs of the model never lie on a rounding tie.
Round2(milli) == (milli + 5) \div 10

kelvin_to_celsius(temp) ==
    IF IsIntOrFloat(temp) THEN Some(Round2(temp.n - 273150)) ELSE NoneVal

-----------------------------------------------------------------------------
\* json.loads(result.stdout)[0]

\* The standard output of the tool, as json.loads sees it: top is the Python
\* type of the decoded document ("malformed" when decoding raises), elems the
\* items an index [0] can reach (array items, or the characters of a string).
Element(t, f) == [t |-> t, f |-> f]
Fields(d, fl, mx, mn) ==
    [DateTimeOriginal |-> d, FocalLength |-> fl,
     ImageTemperatureMax |-> mx, ImageTemperatureMin |-> mn]
NoFields == Fields(Absent, Absent, Absent, Absent)
Stdout(top, elems) == [top |-> top, elems |-> elems]

LoadFirst(out) ==
    IF out.top \in {"list", "str"} /\ Len(out.elems) > 0
    THEN [ok |-> TRUE, val |-> out.elems[1]]
    ELSE [ok |-> FALSE, val |-> Element("NoneType", NoFields)]

\* metadata.get(key, default): only a dict has the method.
HasGet(md) == md.t = "dict"
Get(md, key, default) == IF md.f[key].t = "absent" THEN default ELSE md.f[key]

-----------------------------------------------------------------------------
\* pd.to_datetime(..., format="%Y:%m:%d %H:%M:%S.%f%z", errors="coerce")

\* A format that leaves out the fraction: "%Y:%m:%d %H:%M:%S%z".
DateTimeFormat_NoFraction == <<"Y", "m", "d", "H", "M", "S", "z">>

DateTimeFormat == <<"Y", "m", "d", "H", "M", "S", "f", "z">>

InRange(tok) ==
    CASE tok.d = "Y" -> tok.v \in 1..9999
      [] tok.d = "m" -> tok.v \in 1..12
      [] tok.d = "d" -> tok.v \in 1..31
      [] tok.d = "H" -> tok.v \in 0..23
      [] tok.d = "M" -> tok.v \in 0..59
      [] tok.d = "S" -> tok.v \in 0..61
      [] tok.d = "f" -> tok.v \in 0..999999
      [] tok.d = "z" -> tok.v \in (0 - 1439)..1439
      [] OTHER -> FALSE

Matches(ts, fmt) ==
    /\ Len(ts) = Len(fmt)
    /\ \A k \in 1..Len(fmt) : ts[k].d = fmt[k] /\ InRange(ts[k])

FieldOf(ts, d) == ts[CHOOSE k \in 1..Len(ts) : ts[k].d = d].v

WallMinutes(ts) == ((FieldOf(ts, "d") - 1) * 24 + FieldOf(ts, "H")) * 60 + FieldOf(ts, "M")

\* The parsed value: null (None or NaT), or a timezone-aware timestamp.
to_datetime(arg) ==
    IF arg.t = "str" /\ Matches(arg.ts, DateTimeFormat)
    THEN [null |-> FALSE, wall |-> WallMinutes(arg.ts), off |-> FieldOf(arg.ts, "z")]
    ELSE [null |-> TRUE, wall |-> 0, off |-> 0]

\* Timestamp.tz_convert(None): the UTC reading, without the zone.
tz_convert_None(stamp) == Some(stamp.wall - stamp.off)

CaptureTime(md) ==
    LET date_time == to_datetime(Get(md, "DateTimeOriginal", PyNone))
    IN IF ~date_time.null THEN tz_convert_None(date_time) ELSE NoneVal

MakeRecord(photo, md) ==
    [FileName |-> photo.name,
     DateTime |-> CaptureTime(md),
     FocalLength |-> Get(md, "FocalLength", PyStr("N/A")),
     TempMax |-> kelvin_to_celsius(Get(md, "ImageTemperatureMax", PyNone)),
     TempMin |-> kelvin_to_celsius(Get(md, "ImageTemperatureMin", PyNone))]

-----------------------------------------------------------------------------
\* The folder and the tool's answers the model draws from.

File(name, suffix) == [name |-> name, suffix |-> suffix]
AllFiles ==
    {File("a.jpg", ".jpg"), File("b.jpg", ".jpg"), File("c.jpeg", ".jpeg"),
     File("d.png", ".png"), File("e.txt", ".txt")}

FullStamp(hour, off) == PyStamp(Stamp(1, hour, 0) \o <<Tok("f", 0), Tok("z", off)>>)
DateValues ==
    {FullStamp(10, 120), FullStamp(9, 0),
     PyStamp(Stamp(1, 10, 0)),
     PyStamp(Stamp(1, 10, 0) \o <<Tok("f", 500000)>>),
     PyStamp(Stamp(1, 10, 0) \o <<Tok("z", 120)>>),
     PyStamp(<<Tok("text", 0)>>),
     PyInt(5), Absent}
TempMaxValues ==
    {PyInt(300), PyFloat(296157), PyStr("hot"), PyBool(TRUE), PyNone, PyList, PyDict, Absent}
TempMinValues == {PyInt(295), PyBool(FALSE), PyStr("cold"), Absent}

Objects ==
    {Element("dict", Fields(d, PyStr("13.0 mm"), PyInt(300), PyInt(295))) : d \in DateValues}
    \cup {Element("dict", Fields(FullStamp(10, 120), PyStr("13.0 mm"), mx, PyInt(295))) :
             mx \in TempMaxValues}
    \cup {Element("dict", Fields(FullStamp(10, 120), PyStr("13.0 mm"), PyInt(300), mn)) :
             mn \in TempMinValues}
    \cup {Element("dict", Fields(FullStamp(9, 0), Absent, PyInt(300), PyInt(295)))}
NonObjects ==
    {Element("int", NoFields), Element("str", NoFields),
     Element("NoneType", NoFields), Element("list", NoFields)}

Outputs ==
    {Stdout("malformed", <<>>), Stdout("list", <<>>), Stdout("dict", <<>>),
     Stdout("str", <<Element("str", NoFields)>>), Stdout("int", <<>>),
     Stdout("NoneType", <<>>)}
    \cup {Stdout("list", <<e>>) : e \in Objects \cup NonObjects}
    \cup {Stdout("list", <<Element("dict", Fields(FullStamp(9, 0), PyStr("13.0 mm"),
                                                  PyInt(300), PyInt(295))),
                           Element("int", NoFields)>>)}

\* Record sequences handed to plot_temperatures or save_to_excel by a direct call.
ArgRecords ==
    {[FileName |-> "a.jpg", DateTime |-> dt, FocalLength |-> PyStr("N/A"),
      TempMax |-> mx, TempMin |-> mn] :
        dt \in {NoneVal, Some(540), Some(600)},
        mx \in {NoneVal, Some(2685)},
        mn \in {NoneVal, Some(2185)}}
SeqsUpTo(S, n) == UNION {[1..k -> S] : k \in 0..n}

-----------------------------------------------------------------------------
\* Exceptions and messages.

NoExc == [type |-> "", msg |-> ""]
Exc(type, msg) == [type |-> type, msg |-> msg]
ToolMissing == Exc("FileNotFoundError", "ExifTool neni dostupny v PATH.")
FolderMissing == Exc("FileNotFoundError", "Slozka neexistuje nebo neni adresar.")
NoGetMethod == Exc("AttributeError", "object has no attribute 'get'")
NoColumns == Exc("KeyError", "['DateTime', 'TempMax', 'TempMin']")

MsgNoImages == "Ve slozce nejsou zadne obrazky."
MsgNoPlotData == "Zadna platna data pro vykresleni grafu."
MsgNoSaveData == "Zadna data k ulozeni."
MsgSaved == "Data byla ulozena do metadata.xlsx"

NoFile == [written |-> FALSE, rows |-> <<>>]
Written(rows) == [written |-> TRUE, rows |-> rows]

-----------------------------------------------------------------------------
\* Discovery: glob("*.jpg") + glob("*.jpeg") + glob("*.png"); the order inside
\* one glob is the directory's, which the program does not control.

Glob(dir, suffix) == {f \in dir : f.suffix = suffix}
Orderings(S) ==
    {q \in [1..Cardinality(S) -> S] : \A a, b \in 1..Cardinality(S) : a # b => q[a] # q[b]}
Discover(dir) ==
    {j \o e \o p : j \in Orderings(Glob(dir, ".jpg")),
                   e \in Orderings(Glob(dir, ".jpeg")),
                   p \in Orderings(Glob(dir, ".png"))}

\* The two checks in the other order.
PreconditionFailure_FolderFirst(tool, fstate) ==
    IF fstate # "dir" THEN FolderMissing
    ELSE IF ~tool THEN ToolMissing
    ELSE NoExc

\* Which precondition of extract_metadata fails, in the order it checks them.
PreconditionFailure(tool, fstate) ==
    IF ~tool THEN ToolMissing
    ELSE IF fstate # "dir" THEN FolderMissing
    ELSE NoExc

\* `break` in place of `continue`: the loop ends at the first failure.
AfterSkip_Break(idx, n) == n + 1

\* `continue`: the loop goes on with the next photo.
AfterSkip(idx, n) == idx + 1

-----------------------------------------------------------------------------
\* plot_temperatures: dropna(subset=[DateTime, TempMax, TempMin]).sort_values("DateTime")

Complete(r) == ~r.DateTime.null /\ ~r.TempMax.null /\ ~r.TempMin.null
InOrder_Descending(x, y) == x.DateTime.v >= y.DateTime.v
InOrder(x, y) == x.DateTime.v <= y.DateTime.v
IsSortedBy(q) == \A k \in 1..(Len(q) - 1) : InOrder(q[k], q[k + 1])
\* The sort is not stable: rows of equal time come out in any order.
SortValues(q) ==
    {[k \in 1..Len(q) |-> q[p[k]]] : p \in {r \in Orderings(1..Len(q)) :
                                               IsSortedBy([k \in 1..Len(q) |-> q[r[k]]])}}
DropNa(q) == SelectSeq(q, Complete)

-----------------------------------------------------------------------------
Init ==
    /\ entry \in {"main", "plot_temperatures", "save_to_excel"}
    /\ IF entry = "main"
       THEN /\ toolOnPath \in BOOLEAN
            /\ folderState \in {"missing", "file", "dir"}
            /\ folder \in {S \in SUBSET AllFiles :
                              /\ Cardinality(S) <= MaxFiles
                              /\ folderState # "dir" => S = {}}
            /\ metadata = <<>>
            /\ pc = "start"
       ELSE /\ toolOnPath = TRUE
            /\ folderState = "dir"
            /\ folder = {}
            /\ metadata \in SeqsUpTo(ArgRecords, MaxRecords)
            /\ pc = IF entry = "plot_temperatures" THEN "plot" ELSE "save"
    /\ photos = <<>>
    /\ i = 0
    /\ data = <<>>
    /\ origin = <<>>
    /\ outs = <<>>
    /\ invocations = <<>>
    /\ printed = <<>>
    /\ chart = NoFile
    /\ report = NoFile
    /\ raised = NoExc

\* Lines 31-36: the tool is looked up first, then the folder.
CheckPreconditions ==
    /\ pc = "start"
    /\ LET failure == PreconditionFailure(toolOnPath, folderState)
       IN IF failure # NoExc
          THEN pc' = "raised" /\ raised' = failure
          ELSE pc' = "glob" /\ UNCHANGED raised
    /\ UNCHANGED <<entry, toolOnPath, folderState, folder, photos, i, data, origin,
                   outs, invocations, metadata, printed, chart, report>>

\* Lines 39-44.
GlobPhotos ==
    /\ pc = "glob"
    /\ \E found \in Discover(folder) :
          /\ photos' = found
          /\ IF found = <<>>
             THEN /\ printed' = Append(printed, MsgNoImages)
                  /\ metadata' = <<>>
                  /\ pc' = "main_if"
                  /\ UNCHANGED i
             ELSE /\ i' = 1
                  /\ pc' = "loop"
                  /\ UNCHANGED <<printed, metadata>>
    /\ data' = <<>>
    /\ UNCHANGED <<entry, toolOnPath, folderState, folder, origin, outs, invocations,
                   chart, report, raised>>

\* Lines 45-49: subprocess.run starts the tool for photos[i] and blocks.
Spawn ==
    /\ pc = "loop"
    /\ i <= Len(photos)
    /\ invocations' = Append(invocations, photos[i])
    /\ pc' = "running"
    /\ UNCHANGED <<entry, toolOnPath, folderState, folder, photos, i, data, origin,
                   outs, metadata, printed, chart, report, raised>>

\* Lines 49-71: the tool exits with standard output `out`; the loop body runs.
ToolExit(out) ==
    /\ pc = "running"
    /\ outs' = Append(outs, out)
    /\ LET loaded == LoadFirst(out)
       IN IF ~loaded.ok
          THEN /\ i' = AfterSkip(i, Len(photos))
               /\ pc' = "loop"
               /\ UNCHANGED <<data, origin, raised>>
          ELSE IF ~HasGet(loaded.val)
          THEN /\ pc' = "raised"
               /\ raised' = NoGetMethod
               /\ UNCHANGED <<i, data, origin>>
          ELSE /\ data' = Append(data, MakeRecord(photos[i], loaded.val))
               /\ origin' = Append(origin, loaded.val)
               /\ i' = i + 1
               /\ pc' = "loop"
               /\ UNCHANGED raised
    /\ UNCHANGED <<entry, toolOnPath, folderState, folder, photos, invocations,
                   metadata, printed, chart, report>>

\* Line 72, and the assignment of line 119.
ReturnData ==
    /\ pc = "loop"
    /\ i > Len(photos)
    /\ metadata' = data
    /\ pc' = "main_if"
    /\ UNCHANGED <<entry, toolOnPath, folderState, folder, photos, i, data, origin,
                   outs, invocations, printed, chart, report, raised>>

\* Line 120.
MainIf ==
    /\ pc = "main_if"
    /\ pc' = IF metadata # <<>> THEN "plot" ELSE "done"
    /\ UNCHANGED <<entry, toolOnPath, folderState, folder, photos, i, data, origin,
                   outs, invocations, metadata, printed, chart, report, raised>>

\* Lines 82-98.  A DataFrame built from an empty list has no columns, and
\* dropna raises KeyError for the missing subset.
PlotTemperatures ==
    /\ pc = "plot"
    /\ IF metadata = <<>>
       THEN /\ pc' = "raised"
            /\ raised' = NoColumns
            /\ UNCHANGED <<printed, chart>>
       ELSE \E df \in SortValues(DropNa(metadata)) :
               /\ IF df = <<>>
                  THEN printed' = Append(printed, MsgNoPlotData) /\ UNCHANGED chart
                  ELSE chart' = Written(df) /\ UNCHANGED printed
               /\ pc' = IF entry = "main" THEN "save" ELSE "done"
               /\ UNCHANGED raised
    /\ UNCHANGED <<entry, toolOnPath, folderState, folder, photos, i, data, origin,
                   outs, invocations, metadata, report>>

\* Lines 108-113.
SaveToExcel ==
    /\ pc = "save"
    /\ IF metadata = <<>>
       THEN printed' = Append(printed, MsgNoSaveData) /\ UNCHANGED report
       ELSE report' = Written(metadata) /\ printed' = Append(printed, MsgSaved)
    /\ pc' = "done"
    /\ UNCHANGED <<entry, toolOnPath, folderState, folder, photos, i, data, origin,
                   outs, invocations, metadata, chart, raised>>

Next ==
    \/ CheckPreconditions
    \/ GlobPhotos
    \/ Spawn
    \/ \E out \in Outputs : ToolExit(out)
    \/ ReturnData
    \/ MainIf
    \/ PlotTemperatures
    \/ SaveToExcel

Spec == Init /\ [][Next]_vars

-----------------------------------------------------------------------------
\* Vocabulary of the properties.

Range(q) == {q[k] : k \in 1..Len(q)}
Count(q, x) == Cardinality({k \in 1..Len(q) : q[k] = x})
Diagnostics == {MsgNoImages, MsgNoPlotData, MsgNoSaveData}
ImageSuffixes == {".jpg", ".jpeg", ".png"}

\* extract_metadata has returned to __main__.
Returned == entry = "main" /\ pc \in {"main_if", "plot", "save", "done"}
\* Both preconditions of extract_metadata hold.
PreconditionsHold == entry = "main" /\ toolOnPath /\ folderState = "dir"

\* The tool's output is a JSON array that has a first element.
ArrayWithFirst(out) == out.top = "list" /\ Len(out.elems) >= 1

RECURSIVE NamesOfParsed(_)
NamesOfParsed(k) ==
    IF k > Len(photos) THEN <<>>
    ELSE (IF ArrayWithFirst(outs[k]) THEN <<photos[k].name>> ELSE <<>>) \o NamesOfParsed(k + 1)

AllPresent(r) == r.DateTime.null = FALSE /\ r.TempMax.null = FALSE /\ r.TempMin.null = FALSE
Ascending(q) == \A a, b \in 1..Len(q) : a < b => q[a].DateTime.v <= q[b].DateTime.v

\* The timestamp texts: the date and time of day, then the fraction and the offset.
BaseStamp(ts) ==
    /\ Len(ts) >= 6
    /\ <<ts[1].d, ts[2].d, ts[3].d, ts[4].d, ts[5].d, ts[6].d>> = <<"Y", "m", "d", "H", "M", "S">>
    /\ ts[2].v \in 1..12 /\ ts[3].v \in 1..31 /\ ts[4].v \in 0..23 /\ ts[5].v \in 0..59
PartsAfterSeconds(ts) == [k \in 1..(Len(ts) - 6) |-> ts[k + 6].d]
OptionalPattern(v) ==
    v.t = "str" /\ BaseStamp(v.ts) /\ PartsAfterSeconds(v.ts) \in {<<>>, <<"f">>, <<"z">>, <<"f", "z">>}
StrictPattern(v) == v.t = "str" /\ BaseStamp(v.ts) /\ PartsAfterSeconds(v.ts) = <<"f", "z">>
HasOffset(v) == v.t = "str" /\ \E k \in 1..Len(v.ts) : v.ts[k].d = "z"

-----------------------------------------------------------------------------
\* C1: once the tool is on the path and the folder is a directory,
\* extract_metadata never ends with an uncaught error, whatever the tool prints.
C1_NoUncaughtError == PreconditionsHold => pc # "raised"

\* C2: a missing tool raises first, whatever the folder; otherwise a folder
\* that is missing or no directory raises; either way nothing is enumerated,
\* spawned, recorded, plotted or written.
C2_PreconditionsFailFast ==
    entry = "main" =>
      /\ (~toolOnPath /\ pc # "start") => (pc = "raised" /\ raised = ToolMissing)
      /\ (toolOnPath /\ folderState # "dir" /\ pc # "start") =>
            (pc = "raised" /\ raised = FolderMissing)
      /\ (~toolOnPath \/ folderState # "dir") =>
            /\ photos = <<>> /\ invocations = <<>> /\ outs = <<>>
            /\ data = <<>> /\ metadata = <<>>
            /\ ~chart.written /\ ~report.written

C2_Witness ==
    /\ entry = "main" /\ pc = "raised" /\ raised = ToolMissing
    /\ folderState = "missing"

\* C3: the returned sequence holds, in discovery order, one record named
\* after each file whose output was an array with a first element, and
\* nothing for the others; every discovered file has been processed.
C3_ReturnedIsFilterOfDiscovered ==
    Returned =>
      /\ Len(outs) = Len(photos)
      /\ [k \in 1..Len(metadata) |-> metadata[k].FileName] = NamesOfParsed(1)
      /\ \A k \in 1..Len(metadata) : metadata[k].FileName # ""

C3_Witness ==
    /\ Returned /\ Len(photos) = 2 /\ Len(metadata) = 1
    /\ ~ArrayWithFirst(outs[1]) /\ ArrayWithFirst(outs[2])
    /\ metadata[1].FileName = photos[2].name

\* C4: in a finished pipeline run every empty result has printed a
\* diagnostic and left the step's file unwritten: no images, no complete
\* record for the plot, no record for the report.
C4_EmptyResultsAreReported ==
    (entry = "main" /\ pc = "done") =>
      /\ photos = <<>> =>
            (MsgNoImages \in Range(printed) /\ ~chart.written /\ ~report.written)
      /\ (\A r \in Range(metadata) : ~AllPresent(r)) =>
            (Range(printed) \cap Diagnostics # {} /\ ~chart.written)
      /\ metadata = <<>> =>
            (Range(printed) \cap Diagnostics # {} /\ ~report.written)

\* C5: plot_temperatures called with a sequence that has no complete record
\* (the empty sequence included) prints its diagnostic, writes no chart and
\* returns normally.
C5_NothingToPlotIsHarmless ==
    (entry = "plot_temperatures" /\ pc # "plot"
       /\ \A r \in Range(metadata) : ~AllPresent(r)) =>
      /\ pc = "done" /\ raised = NoExc
      /\ MsgNoPlotData \in Range(printed)
      /\ ~chart.written

\* C6: the plotted series is the complete records, ascending by capture
\* time; the report holds every record in the original order, so it has at
\* least as many rows as the series; plotting leaves the records as they were.
C6_State ==
    /\ chart.written =>
          /\ Ascending(chart.rows)
          /\ \A r \in Range(metadata) \cup Range(chart.rows) :
                Count(chart.rows, r) = IF AllPresent(r) THEN Count(metadata, r) ELSE 0
    /\ (pc \in {"save", "done"} /\ metadata # <<>> /\ ~chart.written
          /\ entry # "save_to_excel") => \A r \in Range(metadata) : ~AllPresent(r)
    /\ report.written =>
          /\ report.rows = metadata
          /\ entry = "main" => report.rows = data
          /\ Len(report.rows) >= Len(chart.rows)
    /\ (pc = "done" /\ entry # "plot_temperatures" /\ metadata # <<>>) => report.written

C6_PlotFilteredSortedReportFull ==
    [](C6_State) /\ [][pc = "plot" => metadata' = metadata]_vars

C6_Witness ==
    /\ entry = "main" /\ pc = "done" /\ chart.written /\ report.written
    /\ Len(chart.rows) = 1 /\ Len(report.rows) = 2

\* C7: a record's temperature is round(k - 273.15, 2) for an integer or
\* float field and null for every other field: missing, null, string,
\* boolean, list.
C7_CelsiusOfNumbersOnly ==
    \A k \in 1..Len(data) :
      \A pair \in {<<origin[k].f.ImageTemperatureMax, data[k].TempMax>>,
                   <<origin[k].f.ImageTemperatureMin, data[k].TempMin>>} :
        IF pair[1].t \in {"int", "float"}
        THEN pair[2] = Some(Round2(pair[1].n - 273150))
        ELSE pair[2].null

\* C8: a timestamp with an offset is stored with the date and time of day
\* written in the text, the offset dropped.
C8_WallClockKept ==
    \A k \in 1..Len(data) :
      LET d == origin[k].f.DateTimeOriginal
      IN (HasOffset(d) /\ ~data[k].DateTime.null) =>
            data[k].DateTime.v = WallMinutes(d.ts)

C10_OneInvocationPerFile ==
    entry = "main" =>
      /\ \A f \in Range(invocations) : f \in folder /\ f.suffix \in ImageSuffixes
      /\ \A f \in folder : Count(invocations, f) <= 1
      /\ Len(invocations) - Len(outs) = IF pc = "running" THEN 1 ELSE 0
      /\ (PreconditionsHold /\ pc \in {"main_if", "plot", "save", "done", "raised"}) =>
            \A f \in folder : f.suffix \in ImageSuffixes => Count(invocations, f) = 1

====
